---- MODULE Spec2Model ----
(***************************************************************************)
(* Model of mitmproxy/tools/cmdline.py: get_common_options, the resolver   *)
(* that turns the argparse namespace (RawArguments) into the keyword       *)
(* dictionary of the options object (ResolvedConfiguration), together with *)
(* the per-flag conversions of the argument surface that feed it.          *)
(*                                                                         *)
(* Python values are tagged records, so that None, "", 0 and a tuple stay  *)
(* distinct and comparable.  Strings are sequences of one-character        *)
(* strings, which lets split() and the size parser work on them.           *)
(***************************************************************************)
EXTENDS Integers, Sequences, FiniteSets

\* ------------------------------------------------------------ Python values

None == [t |-> "None"]
Str(s) == [t |-> "str", v |-> s]
Num(n) == [t |-> "int", v |-> n]
Tuple(f, m) == [t |-> "tuple", f |-> f, m |-> m]

List(l) == [t |-> "list", v |-> l]

\* Python truth value of None, a str, an int, a list or a (non-empty) tuple.
Truthy(x) ==
    CASE x.t = "None" -> FALSE
      [] x.t = "str" -> x.v # <<>>
      [] x.t = "int" -> x.v # 0
      [] x.t = "list" -> x.v # <<>>
      [] OTHER -> TRUE

\* ------------------------------------------------------------------ bounds

MaxCerts == 2
MaxVerbose == 3
MaxCalls == 2

\* const= of -v/--verbose
VerboseConst == 3

\* -------------------------------------------------------------- exceptions

OptionsError(m) == [kind |-> "OptionsError", msg |-> m]
SizeParseError == [kind |-> "ValueError", msg |-> "Invalid size specification."]

SameFileMsg == "Cannot use '{}' for both reading and writing flows. Are you looking for --afile?"
InfiniteLoopMsg == "Cannot use '{}' for both reading and appending flows. That would trigger an infinite loop."
BodySizeMsg == "Invalid body size limit specification: %s"
PlatformMsg == "Transparent mode not supported on this platform."
ExclusiveMsg == "Transparent, SOCKS5, reverse and upstream proxy mode are mutually exclusive."
ChainMsg == "The no-upstream-cert and add-upstream-certs-to-client-chain options are mutually exclusive."

\* ------------------------------------------------------------ unit parsers

Digits == <<"0", "1", "2", "3", "4", "5", "6", "7", "8", "9">>
IsDigit(ch) == \E d \in 1..10 : Digits[d] = ch
DigitVal(ch) == (CHOOSE d \in 1..10 : Digits[d] = ch) - 1
AllDigits(s) == s # <<>> /\ \A k \in 1..Len(s) : IsDigit(s[k])

RECURSIVE DecimalValue(_)
DecimalValue(s) ==
    IF s = <<>> THEN 0
    ELSE 10 * DecimalValue(SubSeq(s, 1, Len(s) - 1)) + DigitVal(s[Len(s)])

SizeUnit(ch) ==
    CASE ch \in {"k", "K"} -> 1024
      [] ch \in {"m", "M"} -> 1024 * 1024
      [] ch \in {"g", "G"} -> 1024 * 1024 * 1024
      [] OTHER -> 0

\* human.parse_size: digits, optionally followed by k, m or g; anything else
\* (the empty string included) is a size parse error.
parse_size(s) ==
    IF AllDigits(s) THEN Num(DecimalValue(s))
    ELSE IF Len(s) >= 2 /\ AllDigits(SubSeq(s, 1, Len(s) - 1)) /\ SizeUnit(s[Len(s)]) # 0
         THEN Num(DecimalValue(SubSeq(s, 1, Len(s) - 1)) * SizeUnit(s[Len(s)]))
         ELSE SizeParseError

\* Position of the first "=" of s, 0 when there is none.
FirstEq(s) ==
    IF \E k \in 1..Len(s) : s[k] = "="
    THEN CHOOSE k \in 1..Len(s) : s[k] = "=" /\ \A j \in 1..(k - 1) : s[j] # "="
    ELSE 0

\* Splits on the last "=" instead of the first, as i.rsplit("=", 1) would.
SplitEq1_Mutant(s) ==
    IF FirstEq(s) = 0 THEN <<s>>
    ELSE LET k == CHOOSE k \in 1..Len(s) :
                      s[k] = "=" /\ \A j \in (k + 1)..Len(s) : s[j] # "="
         IN <<SubSeq(s, 1, k - 1), SubSeq(s, k + 1, Len(s))>>

\* i.split("=", 1)
SplitEq1(s) ==
    IF FirstEq(s) = 0 THEN <<s>>
    ELSE <<SubSeq(s, 1, FirstEq(s) - 1), SubSeq(s, FirstEq(s) + 1, Len(s))>>

\* One pass of the loop body over a raw cert spec: [domain, path].
CertParts(s) ==
    IF Len(SplitEq1(s)) = 1 THEN <<<<"*">>, SplitEq1(s)[1]>> ELSE SplitEq1(s)

\* The type= conversions of -w/--wfile and -a/--afile.
wfile_type(f) == Tuple(f, "w")
afile_type(f) == Tuple(f, "a")

\* ------------------------------------------------------------------ inputs

FlowA == <<"f", "l", "o", "w", "A">>
FlowB == <<"f", "l", "o", "w", "B">>
TargetR == <<"h", "t", "t", "p", ":", "/", "/", "r">>
TargetU == <<"h", "t", "t", "p", ":", "/", "/", "u">>
Filt == <<"~", "q">>

StreamSizes == {None, Str(<<>>), Str(<<"3", "m">>), Str(<<"3", "x">>)}
BodySizes == {None, Str(<<>>), Str(<<"0">>), Str(<<"5", "1", "2", "k">>), Str(<<"m", "3">>)}
StreamFiles == {None} \cup {wfile_type(Str(f)) : f \in {FlowA, FlowB}}
                      \cup {afile_type(Str(f)) : f \in {FlowA, FlowB}}
CertStrings == {<<"a">>, <<"d", "=", "a">>, <<"d", "=", "a", "=", "b">>, <<"=", "a">>}

RECURSIVE SeqsUpTo(_, _)
SeqsUpTo(S, n) ==
    IF n = 0 THEN {<<>>}
    ELSE SeqsUpTo(S, n - 1) \cup
         {Append(q, e) : q \in {p \in SeqsUpTo(S, n - 1) : Len(p) = n - 1}, e \in S}

CertLists == {None} \cup {List(l) : l \in SeqsUpTo(CertStrings, MaxCerts)}

Defaults ==
    [stickycookie_filt |-> None, stickyauth_filt |-> None,
     stream_large_bodies |-> None, streamfile |-> None, rfile |-> None,
     certs |-> None, body_size_limit |-> None,
     transparent_proxy |-> FALSE, socks_proxy |-> FALSE,
     reverse_proxy |-> None, upstream_proxy |-> None,
     add_upstream_certs_to_client_chain |-> FALSE, upstream_cert |-> TRUE,
     quiet |-> FALSE, verbose |-> VerboseConst]

\* Every combination of the options the validation rules read.
RuleArgs ==
    {[Defaults EXCEPT !.stream_large_bodies = sl, !.streamfile = sf, !.rfile = rf,
                      !.body_size_limit = bl, !.transparent_proxy = tp,
                      !.socks_proxy = sp, !.reverse_proxy = rp, !.upstream_proxy = up,
                      !.add_upstream_certs_to_client_chain = ac, !.upstream_cert = uc] :
        sl \in StreamSizes, sf \in StreamFiles, rf \in {None, Str(FlowA)},
        bl \in BodySizes, tp \in BOOLEAN, sp \in BOOLEAN,
        rp \in {None, Str(<<>>), Str(TargetR)}, up \in {None, Str(<<>>), Str(TargetU)},
        ac \in BOOLEAN, uc \in BOOLEAN}

\* Every combination of the options that are only derived or copied.
ListArgs ==
    {[Defaults EXCEPT !.stickycookie_filt = ck, !.stickyauth_filt = au, !.certs = ce,
                      !.quiet = q, !.verbose = v] :
        ck \in {None, Str(<<>>), Str(Filt)}, au \in {None, Str(Filt)},
        ce \in CertLists, q \in BOOLEAN, v \in 0..MaxVerbose}

\* ------------------------------------------------------------------- state

VARIABLES
    raw,                \* the namespace as the surface produced it
    args,               \* the namespace object the resolver reads and writes
    original_addr,      \* platform.original_addr is available
    pc,                 \* position inside get_common_options
    stickycookie, stickyauth, stream_large_bodies, certs, idx,
    body_size_limit, c, mode, upstream_server,
    raised,             \* the exception that left the function, or None
    result,             \* the returned dict, or None
    calls,              \* calls of get_common_options made on args so far
    first,              \* how the first call ended, once a later call has begun
    variant,            \* the tool whose argument parser is built
    parser,             \* the groups and arguments added to the parser, in order
    bpc,                \* the builder function that is running
    bidx                \* the additions that function has made so far

vars == <<raw, args, original_addr, pc, stickycookie, stickyauth, stream_large_bodies,
          certs, idx, body_size_limit, c, mode, upstream_server, raised, result,
          calls, first, variant, parser, bpc, bidx>>

caller == <<calls, first>>

surface == <<variant, parser, bpc, bidx>>

resolver == <<raw, args, original_addr, pc, stickycookie, stickyauth, stream_large_bodies,
              certs, idx, body_size_limit, c, mode, upstream_server, raised, result,
              calls, first>>

locals == <<stickycookie, stickyauth, stream_large_bodies, certs, idx,
            body_size_limit, c, mode, upstream_server>>

Init ==
    /\ raw \in RuleArgs \cup ListArgs
    /\ args = raw
    /\ original_addr \in BOOLEAN
    /\ pc = "sticky"
    /\ stickycookie = None /\ stickyauth = None
    /\ stream_large_bodies = None
    /\ certs = <<>> /\ idx = 0
    /\ body_size_limit = None
    /\ c = 0 /\ mode = "regular" /\ upstream_server = None
    /\ raised = None /\ result = None
    /\ calls = 1 /\ first = None
    \* the builder has returned; the resolver sees the namespace, not the parser
    /\ variant = "mitmdump" /\ parser = <<>> /\ bpc = "return" /\ bidx = 0

Raise(e) ==
    /\ pc' = "raised"
    /\ raised' = e
    /\ UNCHANGED <<caller, surface, raw, args, original_addr, result>>

Goto(l) ==
    /\ pc' = l
    /\ UNCHANGED <<caller, surface, raw, args, original_addr, raised, result>>

\* ------------------------------------------------------ get_common_options

StickyFilters ==
    /\ pc = "sticky"
    /\ stickycookie' = (IF Truthy(args.stickycookie_filt) THEN args.stickycookie_filt ELSE None)
    /\ stickyauth' = (IF Truthy(args.stickyauth_filt) THEN args.stickyauth_filt ELSE None)
    /\ Goto("stream")
    /\ UNCHANGED <<stream_large_bodies, certs, idx, body_size_limit, c, mode, upstream_server>>

StreamLargeBodies ==
    /\ pc = "stream"
    /\ \/ /\ ~Truthy(args.stream_large_bodies)
          /\ stream_large_bodies' = args.stream_large_bodies
          /\ Goto("streamfile")
       \/ /\ Truthy(args.stream_large_bodies)
          /\ parse_size(args.stream_large_bodies.v) # SizeParseError
          /\ stream_large_bodies' = parse_size(args.stream_large_bodies.v)
          /\ Goto("streamfile")
       \/ /\ Truthy(args.stream_large_bodies)
          /\ parse_size(args.stream_large_bodies.v) = SizeParseError
          /\ stream_large_bodies' = args.stream_large_bodies
          /\ Raise(SizeParseError)
    /\ UNCHANGED <<stickycookie, stickyauth, certs, idx, body_size_limit, c, mode,
                   upstream_server>>

StreamFileConflict(a) == Truthy(a.streamfile) /\ a.streamfile.f = a.rfile

StreamFile ==
    /\ pc = "streamfile"
    /\ \/ /\ StreamFileConflict(args)
          /\ Raise(OptionsError(IF args.streamfile.m = "wb" THEN SameFileMsg
                                ELSE InfiniteLoopMsg))
       \/ /\ ~StreamFileConflict(args)
          /\ Goto("certs")
    /\ UNCHANGED locals

CertsInit ==
    /\ pc = "certs"
    /\ certs' = <<>>
    /\ idx' = 0
    /\ Goto("certs_loop")
    /\ UNCHANGED <<stickycookie, stickyauth, stream_large_bodies, body_size_limit, c, mode,
                   upstream_server>>

\* args.certs or []
CertsOrEmpty(a) == IF Truthy(a.certs) THEN a.certs.v ELSE <<>>

CertsLoop ==
    /\ pc = "certs_loop"
    /\ \/ /\ idx < Len(CertsOrEmpty(args))
          /\ certs' = Append(certs, CertParts(CertsOrEmpty(args)[idx + 1]))
          /\ idx' = idx + 1
          /\ Goto("certs_loop")
       \/ /\ idx >= Len(CertsOrEmpty(args))
          /\ UNCHANGED <<certs, idx>>
          /\ Goto("body")
    /\ UNCHANGED <<stickycookie, stickyauth, stream_large_bodies, body_size_limit, c, mode,
                   upstream_server>>

BodySizeLimit ==
    /\ pc = "body"
    /\ \/ /\ ~Truthy(args.body_size_limit)
          /\ body_size_limit' = args.body_size_limit
          /\ Goto("mode")
       \/ /\ Truthy(args.body_size_limit)
          /\ parse_size(args.body_size_limit.v) # SizeParseError
          /\ body_size_limit' = parse_size(args.body_size_limit.v)
          /\ Goto("mode")
       \/ /\ Truthy(args.body_size_limit)
          /\ parse_size(args.body_size_limit.v) = SizeParseError
          /\ body_size_limit' = args.body_size_limit
          /\ Raise(OptionsError(BodySizeMsg))
    /\ UNCHANGED <<stickycookie, stickyauth, stream_large_bodies, certs, idx, c, mode,
                   upstream_server>>

ModeInit ==
    /\ pc = "mode"
    /\ c' = 0
    /\ mode' = "regular"
    /\ upstream_server' = None
    /\ Goto("transparent")
    /\ UNCHANGED <<stickycookie, stickyauth, stream_large_bodies, certs, idx, body_size_limit>>

\* Tests the platform capability before, not inside, the transparent branch.
Transparent_Mutant ==
    /\ pc = "transparent"
    /\ \/ /\ ~original_addr
          /\ UNCHANGED <<c, mode>>
          /\ Raise(OptionsError(PlatformMsg))
       \/ /\ original_addr
          /\ args.transparent_proxy
          /\ c' = c + 1
          /\ mode' = "transparent"
          /\ Goto("socks")
       \/ /\ original_addr
          /\ ~args.transparent_proxy
          /\ UNCHANGED <<c, mode>>
          /\ Goto("socks")
    /\ UNCHANGED <<stickycookie, stickyauth, stream_large_bodies, certs, idx, body_size_limit,
                   upstream_server>>

Transparent ==
    /\ pc = "transparent"
    /\ \/ /\ args.transparent_proxy
          /\ ~original_addr
          /\ c' = c + 1
          /\ UNCHANGED mode
          /\ Raise(OptionsError(PlatformMsg))
       \/ /\ args.transparent_proxy
          /\ original_addr
          /\ c' = c + 1
          /\ mode' = "transparent"
          /\ Goto("socks")
       \/ /\ ~args.transparent_proxy
          /\ UNCHANGED <<c, mode>>
          /\ Goto("socks")
    /\ UNCHANGED <<stickycookie, stickyauth, stream_large_bodies, certs, idx, body_size_limit,
                   upstream_server>>

Socks ==
    /\ pc = "socks"
    /\ \/ /\ args.socks_proxy
          /\ c' = c + 1
          /\ mode' = "socks5"
       \/ /\ ~args.socks_proxy
          /\ UNCHANGED <<c, mode>>
    /\ Goto("reverse")
    /\ UNCHANGED <<stickycookie, stickyauth, stream_large_bodies, certs, idx, body_size_limit,
                   upstream_server>>

\* Selects reverse mode but forgets to capture the target.
Reverse_Mutant ==
    /\ pc = "reverse"
    /\ \/ /\ Truthy(args.reverse_proxy)
          /\ c' = c + 1
          /\ mode' = "reverse"
          /\ UNCHANGED upstream_server
       \/ /\ ~Truthy(args.reverse_proxy)
          /\ UNCHANGED <<c, mode, upstream_server>>
    /\ Goto("upstream")
    /\ UNCHANGED <<stickycookie, stickyauth, stream_large_bodies, certs, idx, body_size_limit>>

Reverse ==
    /\ pc = "reverse"
    /\ \/ /\ Truthy(args.reverse_proxy)
          /\ c' = c + 1
          /\ mode' = "reverse"
          /\ upstream_server' = args.reverse_proxy
       \/ /\ ~Truthy(args.reverse_proxy)
          /\ UNCHANGED <<c, mode, upstream_server>>
    /\ Goto("upstream")
    /\ UNCHANGED <<stickycookie, stickyauth, stream_large_bodies, certs, idx, body_size_limit>>

\* Consumes the option: clears args.upstream_proxy once the target is captured.
Upstream_Mutant ==
    /\ pc = "upstream"
    /\ \/ /\ Truthy(args.upstream_proxy)
          /\ c' = c + 1
          /\ mode' = "upstream"
          /\ upstream_server' = args.upstream_proxy
          /\ args' = [args EXCEPT !.upstream_proxy = None]
       \/ /\ ~Truthy(args.upstream_proxy)
          /\ UNCHANGED <<c, mode, upstream_server, args>>
    /\ pc' = "exclusive"
    /\ UNCHANGED <<caller, surface, raw, original_addr, raised, result>>
    /\ UNCHANGED <<stickycookie, stickyauth, stream_large_bodies, certs, idx, body_size_limit>>

Upstream ==
    /\ pc = "upstream"
    /\ \/ /\ Truthy(args.upstream_proxy)
          /\ c' = c + 1
          /\ mode' = "upstream"
          /\ upstream_server' = args.upstream_proxy
       \/ /\ ~Truthy(args.upstream_proxy)
          /\ UNCHANGED <<c, mode, upstream_server>>
    /\ Goto("exclusive")
    /\ UNCHANGED <<stickycookie, stickyauth, stream_large_bodies, certs, idx, body_size_limit>>

\* Off-by-one in the counter test: tolerates two modes.
Exclusive_Mutant ==
    /\ pc = "exclusive"
    /\ \/ /\ c > 2
          /\ Raise(OptionsError(ExclusiveMsg))
       \/ /\ ~(c > 2)
          /\ Goto("chain")
    /\ UNCHANGED locals

Exclusive ==
    /\ pc = "exclusive"
    /\ \/ /\ c > 1
          /\ Raise(OptionsError(ExclusiveMsg))
       \/ /\ ~(c > 1)
          /\ Goto("chain")
    /\ UNCHANGED locals

ChainConflict(a) == a.add_upstream_certs_to_client_chain /\ ~a.upstream_cert

\* Drops "and not args.upstream_cert" from the test.
Chain_Mutant ==
    /\ pc = "chain"
    /\ \/ /\ args.add_upstream_certs_to_client_chain
          /\ Raise(OptionsError(ChainMsg))
       \/ /\ ~args.add_upstream_certs_to_client_chain
          /\ Goto("quiet")
    /\ UNCHANGED locals

Chain ==
    /\ pc = "chain"
    /\ \/ /\ ChainConflict(args)
          /\ Raise(OptionsError(ChainMsg))
       \/ /\ ~ChainConflict(args)
          /\ Goto("quiet")
    /\ UNCHANGED locals

\* Leaves args.verbose alone when quiet is set.
Quiet_Mutant ==
    /\ pc = "quiet"
    /\ \/ /\ args.quiet
          /\ UNCHANGED args
       \/ /\ ~args.quiet
          /\ UNCHANGED args
    /\ pc' = "return"
    /\ UNCHANGED <<caller, surface, raw, original_addr, raised, result>>
    /\ UNCHANGED locals

Quiet ==
    /\ pc = "quiet"
    /\ \/ /\ args.quiet
          /\ args' = [args EXCEPT !.verbose = 0]
       \/ /\ ~args.quiet
          /\ UNCHANGED args
    /\ pc' = "return"
    /\ UNCHANGED <<caller, surface, raw, original_addr, raised, result>>
    /\ UNCHANGED locals

\* The keys of the returned dict that are derived; every other key is a plain
\* copy of the namesake attribute of args.
Config ==
    [rfile |-> args.rfile,
     stickycookie |-> stickycookie,
     stickyauth |-> stickyauth,
     stream_large_bodies |-> stream_large_bodies,
     streamfile |-> (IF Truthy(args.streamfile) THEN args.streamfile.f ELSE None),
     streamfile_append |-> (Truthy(args.streamfile) /\ args.streamfile.m = "a"),
     verbosity |-> args.verbose,
     add_upstream_certs_to_client_chain |-> args.add_upstream_certs_to_client_chain,
     body_size_limit |-> body_size_limit,
     certs |-> certs,
     mode |-> mode,
     upstream_cert |-> args.upstream_cert,
     upstream_server |-> upstream_server]

Return ==
    /\ pc = "return"
    /\ result' = Config
    /\ pc' = "done"
    /\ UNCHANGED <<caller, surface, raw, args, original_addr, raised>>
    /\ UNCHANGED locals

Next ==
    \/ StickyFilters
    \/ StreamLargeBodies
    \/ StreamFile
    \/ CertsInit
    \/ CertsLoop
    \/ BodySizeLimit
    \/ ModeInit
    \/ Transparent
    \/ Socks
    \/ Reverse
    \/ Upstream
    \/ Exclusive
    \/ Chain
    \/ Quiet
    \/ Return

Spec == Init /\ [][Next]_vars

\* The caller resolves the same namespace object once more: a new frame, the
\* locals unbound again, args as the previous call left it.
CallAgain ==
    /\ pc \in {"done", "raised"}
    /\ calls < MaxCalls
    /\ calls' = calls + 1
    /\ first' = (IF calls = 1 THEN [raised |-> raised, result |-> result] ELSE first)
    /\ pc' = "sticky"
    /\ stickycookie' = None /\ stickyauth' = None
    /\ stream_large_bodies' = None
    /\ certs' = <<>> /\ idx' = 0
    /\ body_size_limit' = None
    /\ c' = 0 /\ mode' = "regular" /\ upstream_server' = None
    /\ raised' = None /\ result' = None
    /\ UNCHANGED <<surface, raw, args, original_addr>>

NextTwice ==
    \/ Next
    \/ CallAgain

SpecTwice == Init /\ [][NextTwice]_vars

\* ------------------------------------------------- argument surface builder

\* One parser.add_argument_group(title) made by the function `by`.
Group(by, title) == [op |-> "add_argument_group", by |-> by, group |-> title, dest |-> ""]

\* One add_argument or opts.make_parser on the parser (group "") or on a group.
Flag(by, title, dest) == [op |-> "add_argument", by |-> by, group |-> title, dest |-> dest]

Flags(by, title, dests) == [i \in 1..Len(dests) |-> Flag(by, title, dests[i])]

basic_options ==
    Flags("basic_options", "",
          <<"version", "shortversion", "anticache", "cadir", "showhost", "quiet", "rfile",
            "scripts", "stickycookie_filt", "stickyauth_filt", "verbose", "streamfile",
            "streamfile", "anticomp", "body_size_limit", "stream_large_bodies">>)

proxy_modes ==
    <<Group("proxy_modes", "Proxy Modes")>> \o
    Flags("proxy_modes", "Proxy Modes",
          <<"reverse_proxy", "socks_proxy", "transparent_proxy", "upstream_proxy">>)

proxy_options ==
    <<Group("proxy_options", "Proxy Options")>> \o
    Flags("proxy_options", "Proxy Options",
          <<"addr", "ignore_hosts", "tcp_hosts", "no_server", "port", "http2",
            "http2_priority", "websocket">>) \o
    Flags("proxy_options", "", <<"upstream_auth">>) \o
    Flags("proxy_options", "Proxy Options",
          <<"rawtcp", "spoof_source_address", "upstream_bind_address", "keep_host_header">>)

proxy_ssl_options ==
    <<Group("proxy_ssl_options", "SSL")>> \o
    Flags("proxy_ssl_options", "SSL",
          <<"certs", "ciphers_client", "ciphers_server", "clientcerts", "upstream_cert",
            "add_upstream_certs_to_client_chain", "ssl_insecure",
            "ssl_verify_upstream_trusted_cadir", "ssl_verify_upstream_trusted_ca",
            "ssl_version_client", "ssl_version_server">>)

onboarding_app ==
    <<Group("onboarding_app", "Onboarding App")>> \o
    Flags("onboarding_app", "", <<"onboarding">>) \o
    Flags("onboarding_app", "Onboarding App", <<"onboarding_host", "onboarding_port">>)

client_replay ==
    <<Group("client_replay", "Client Replay")>> \o
    Flags("client_replay", "Client Replay", <<"client_replay">>)

server_replay ==
    <<Group("server_replay", "Server Replay")>> \o
    Flags("server_replay", "Server Replay", <<"server_replay">>) \o
    Flags("server_replay", "", <<"replay_kill_extra">>) \o
    Flags("server_replay", "Server Replay",
          <<"server_replay_use_headers", "refresh_server_playback", "server_replay_nopop",
            "server_replay_ignore_content", "server_replay_ignore_payload_params",
            "server_replay_ignore_params">>) \o
    Flags("server_replay", "", <<"server_replay_ignore_host">>)

replacements ==
    <<Group("replacements", "Replacements")>> \o
    Flags("replacements", "Replacements", <<"replacements", "replacement_files">>)

set_headers ==
    <<Group("set_headers", "Set Headers")>> \o
    Flags("set_headers", "Set Headers", <<"setheaders">>)

proxy_authentication ==
    <<Group("proxy_authentication", "Proxy Authentication")>> \o
    Flags("proxy_authentication", "Proxy Authentication",
          <<"auth_nonanonymous", "auth_singleuser", "auth_htpasswd">>)

\* What common_options adds itself, before its calls.
common_options == Flags("common_options", "", <<"conf">>)

\* Swaps two neighbouring calls of common_options.
CommonCalls_Mutant ==
    <<"basic_options", "proxy_modes", "proxy_options", "proxy_ssl_options", "onboarding_app",
      "server_replay", "client_replay", "replacements", "set_headers",
      "proxy_authentication">>

\* The calls common_options makes, in order.
CommonCalls ==
    <<"basic_options", "proxy_modes", "proxy_options", "proxy_ssl_options", "onboarding_app",
      "client_replay", "server_replay", "replacements", "set_headers",
      "proxy_authentication">>

\* mitmproxy(opts), before and after its call of common_options.
mitmproxy_head == <<>>

mitmproxy_rest ==
    Flags("mitmproxy", "",
          <<"console_palette", "console_palette_transparent", "console_eventlog",
            "console_focus_follow", "console_order", "console_mouse">>) \o
    <<Group("mitmproxy", "Filters")>> \o
    Flags("mitmproxy", "Filters", <<"intercept", "filter">>)

\* mitmdump(opts), before and after its call of common_options.
mitmdump_head == <<>>

mitmdump_rest == Flags("mitmdump", "", <<"keepserving", "flow_detail", "filter">>)

\* mitmweb(opts), before and after its call of common_options.
mitmweb_head ==
    <<Group("mitmweb", "Mitmweb")>> \o
    Flags("mitmweb", "Mitmweb", <<"web_open_browser", "web_port", "web_iface", "web_debug">>)

mitmweb_rest ==
    <<Group("mitmweb", "Filters")>> \o
    Flags("mitmweb", "Filters", <<"intercept">>)

Variants == {"mitmproxy", "mitmdump", "mitmweb"}

\* Where control goes when call number k of common_options has returned.
AfterCall(k) ==
    IF k < Len(CommonCalls) THEN CommonCalls[k + 1]
    ELSE CASE variant = "mitmproxy" -> "mitmproxy_rest"
           [] variant = "mitmdump" -> "mitmdump_rest"
           [] variant = "mitmweb" -> "mitmweb_rest"

\* The position of fn among the calls of common_options.
CallNo(fn) == CHOOSE k \in 1..Len(CommonCalls) : CommonCalls[k] = fn

\* The running function makes its additions one at a time and then hands
\* control to next.
Adds(items, next) ==
    /\ \/ /\ bidx < Len(items)
          /\ parser' = Append(parser, items[bidx + 1])
          /\ bidx' = bidx + 1
          /\ UNCHANGED bpc
       \/ /\ bidx >= Len(items)
          /\ bpc' = next
          /\ bidx' = 0
          /\ UNCHANGED parser
    /\ UNCHANGED variant
    /\ UNCHANGED resolver

InitBuild ==
    /\ variant \in Variants
    /\ parser = <<>>
    /\ bpc = variant
    /\ bidx = 0
    \* no namespace has been parsed yet: the resolver has not been entered
    /\ raw = Defaults
    /\ args = raw
    /\ original_addr = TRUE
    /\ pc = "sticky"
    /\ stickycookie = None /\ stickyauth = None
    /\ stream_large_bodies = None
    /\ certs = <<>> /\ idx = 0
    /\ body_size_limit = None
    /\ c = 0 /\ mode = "regular" /\ upstream_server = None
    /\ raised = None /\ result = None
    /\ calls = 1 /\ first = None

Mitmproxy ==
    /\ bpc = "mitmproxy"
    /\ Adds(mitmproxy_head, "common_options")

Mitmdump ==
    /\ bpc = "mitmdump"
    /\ Adds(mitmdump_head, "common_options")

Mitmweb ==
    /\ bpc = "mitmweb"
    /\ Adds(mitmweb_head, "common_options")

CommonOptions ==
    /\ bpc = "common_options"
    /\ Adds(common_options, CommonCalls[1])

BasicOptions ==
    /\ bpc = "basic_options"
    /\ Adds(basic_options, AfterCall(CallNo("basic_options")))

ProxyModes ==
    /\ bpc = "proxy_modes"
    /\ Adds(proxy_modes, AfterCall(CallNo("proxy_modes")))

ProxyOptions ==
    /\ bpc = "proxy_options"
    /\ Adds(proxy_options, AfterCall(CallNo("proxy_options")))

ProxySslOptions ==
    /\ bpc = "proxy_ssl_options"
    /\ Adds(proxy_ssl_options, AfterCall(CallNo("proxy_ssl_options")))

OnboardingApp ==
    /\ bpc = "onboarding_app"
    /\ Adds(onboarding_app, AfterCall(CallNo("onboarding_app")))

ClientReplay ==
    /\ bpc = "client_replay"
    /\ Adds(client_replay, AfterCall(CallNo("client_replay")))

ServerReplay ==
    /\ bpc = "server_replay"
    /\ Adds(server_replay, AfterCall(CallNo("server_replay")))

Replacements ==
    /\ bpc = "replacements"
    /\ Adds(replacements, AfterCall(CallNo("replacements")))

SetHeaders ==
    /\ bpc = "set_headers"
    /\ Adds(set_headers, AfterCall(CallNo("set_headers")))

ProxyAuthentication ==
    /\ bpc = "proxy_authentication"
    /\ Adds(proxy_authentication, AfterCall(CallNo("proxy_authentication")))

MitmproxyRest ==
    /\ bpc = "mitmproxy_rest"
    /\ Adds(mitmproxy_rest, "return")

MitmdumpRest ==
    /\ bpc = "mitmdump_rest"
    /\ Adds(mitmdump_rest, "return")

MitmwebRest ==
    /\ bpc = "mitmweb_rest"
    /\ Adds(mitmweb_rest, "return")

NextBuild ==
    \/ Mitmproxy
    \/ Mitmdump
    \/ Mitmweb
    \/ CommonOptions
    \/ BasicOptions
    \/ ProxyModes
    \/ ProxyOptions
    \/ ProxySslOptions
    \/ OnboardingApp
    \/ ClientReplay
    \/ ServerReplay
    \/ Replacements
    \/ SetHeaders
    \/ ProxyAuthentication
    \/ MitmproxyRest
    \/ MitmdumpRest
    \/ MitmwebRest

SpecBuild == InitBuild /\ [][NextBuild]_vars

TypeOK ==
    /\ pc \in {"sticky", "stream", "streamfile", "certs", "certs_loop", "body", "mode",
               "transparent", "socks", "reverse", "upstream", "exclusive", "chain",
               "quiet", "return", "done", "raised"}
    /\ (pc = "raised") = (raised # None)
    /\ (pc = "done") = (result # None)

\* ------------------------------------------------- vocabulary of the claims

Finished == pc \in {"done", "raised"}

NonEmpty(x) == x.t = "str" /\ x.v # <<>>

\* The mode selectors a namespace requests.
Requested(a) ==
    {m \in {"transparent", "socks5", "reverse", "upstream"} :
        \/ m = "transparent" /\ a.transparent_proxy
        \/ m = "socks5" /\ a.socks_proxy
        \/ m = "reverse" /\ NonEmpty(a.reverse_proxy)
        \/ m = "upstream" /\ NonEmpty(a.upstream_proxy)}

\* The size parser rejects the option's string.
SizeRejected(x) == x.t = "str" /\ parse_size(x.v) = SizeParseError

\* The option holds a non-empty string the size parser rejects.
SizeRaises(x) == NonEmpty(x) /\ SizeRejected(x)

\* The stream-file path equals the flow-read-file path.
SamePath(a) == a.streamfile.t = "tuple" /\ a.streamfile.f = a.rfile

\* A check placed before the mode counter test fails.
FailsBeforeModes(a) ==
    SizeRaises(a.stream_large_bodies) \/ SamePath(a) \/ SizeRaises(a.body_size_limit)

\* ------------------------------------------------------------------ claims

\* C1 (as stated): whenever two or more of the four mode selectors are
\* requested, get_common_options fails with the mode-conflict OptionsError.
\* Stated here for the arguments whose stream-large-bodies and stream-file
\* options pass their own checks.
C1_AlwaysModeConflict ==
    (/\ Finished
     /\ ~SizeRejected(raw.stream_large_bodies)
     /\ ~SamePath(raw)
     /\ Cardinality(Requested(raw)) >= 2)
        => (pc = "raised" /\ raised = OptionsError(ExclusiveMsg))

\* C1 (amended): whenever two or more of the four mode selectors are
\* requested, no configuration is returned; the error is the mode-conflict
\* OptionsError unless an earlier check fails first (a non-empty size string
\* the parser rejects, the stream file equal to the read file, or transparent
\* mode requested on a platform without original_addr).
C1_ModeConflict ==
    (Finished /\ Cardinality(Requested(raw)) >= 2)
        => /\ pc = "raised"
           /\ result = None
           /\ (~FailsBeforeModes(raw) /\ ~(raw.transparent_proxy /\ ~original_addr))
                 => raised = OptionsError(ExclusiveMsg)

C1_Witness ==
    /\ pc = "raised"
    /\ raised = OptionsError(ExclusiveMsg)
    /\ Requested(raw) = {"socks5", "upstream"}

\* C2: a successful resolution has mode "regular" and no upstream server when
\* no selector is requested, the requested mode when exactly one is, and its
\* upstream_server is the target string as supplied in reverse and upstream
\* mode and None in regular, transparent and socks5 mode.
C2_ModeSelected ==
    (pc = "done" /\ Cardinality(Requested(raw)) <= 1)
        => /\ Requested(raw) = {} => result.mode = "regular"
           /\ Requested(raw) # {} => Requested(raw) = {result.mode}
           /\ result.mode = "reverse" => result.upstream_server = raw.reverse_proxy
           /\ result.mode = "upstream" => result.upstream_server = raw.upstream_proxy
           /\ result.mode \in {"regular", "transparent", "socks5"}
                 => result.upstream_server = None

C2_Witness ==
    /\ pc = "done"
    /\ Requested(raw) = {"reverse"}
    /\ result.mode = "reverse"
    /\ result.upstream_server = Str(TargetR)

\* C3 (as stated): when the stream-file path equals the flow-read-file path
\* and the rule is reached, a file given with -w fails with the "both reading
\* and writing" error and a file given with -a with the "infinite loop" error;
\* when the paths differ neither error is raised.
C3_KeyedOnStreamMode ==
    (Finished /\ ~SizeRaises(raw.stream_large_bodies))
        => /\ (SamePath(raw) /\ raw.streamfile = wfile_type(raw.rfile))
                 => (pc = "raised" /\ raised = OptionsError(SameFileMsg))
           /\ (SamePath(raw) /\ raw.streamfile = afile_type(raw.rfile))
                 => (pc = "raised" /\ raised = OptionsError(InfiniteLoopMsg))
           /\ ~SamePath(raw)
                 => raised \notin {OptionsError(SameFileMsg), OptionsError(InfiniteLoopMsg)}

\* A check placed before the certificate-chain test fails.
FailsBeforeChain(a, cap) ==
    \/ FailsBeforeModes(a)
    \/ a.transparent_proxy /\ ~cap
    \/ Cardinality(Requested(a)) >= 2

\* C4: provided no earlier check fails, get_common_options fails with the
\* chain-precondition OptionsError exactly when add_upstream_certs_to_client_chain
\* is requested while upstream_cert is disabled; with upstream_cert enabled the
\* chain-precondition error is never raised.
C4_ChainPrecondition ==
    Finished
        => /\ ~FailsBeforeChain(raw, original_addr)
                 => ((pc = "raised" /\ raised = OptionsError(ChainMsg))
                        <=> (raw.add_upstream_certs_to_client_chain /\ ~raw.upstream_cert))
           /\ raw.upstream_cert => raised # OptionsError(ChainMsg)

C4_Witness ==
    /\ pc = "raised"
    /\ raised = OptionsError(ChainMsg)
    /\ raw.add_upstream_certs_to_client_chain
    /\ ~raw.upstream_cert

\* C5 (as stated): a stream-large-bodies string the size parser accepts is
\* resolved to the parser's result, and every string the parser rejects (the
\* empty string included) makes get_common_options fail with an OptionsError,
\* never another kind of error and never a configuration.
C5_StreamSizeOptionsError ==
    Finished
        => /\ (pc = "done" /\ raw.stream_large_bodies.t = "str"
                 /\ ~SizeRejected(raw.stream_large_bodies))
                 => result.stream_large_bodies = parse_size(raw.stream_large_bodies.v)
           /\ SizeRejected(raw.stream_large_bodies)
                 => (pc = "raised" /\ raised.kind = "OptionsError")

\* C6 (as stated): a body-size-limit string the size parser accepts is
\* resolved to the parser's non-negative result, every string the parser
\* rejects (the empty string included) fails with the body-size-limit
\* OptionsError once the rule is reached, and a resolved body_size_limit is
\* always None or a non-negative integer.
C6_BodySizeLimitParsed ==
    (Finished /\ ~SizeRaises(raw.stream_large_bodies) /\ ~SamePath(raw))
        => /\ (pc = "done" /\ raw.body_size_limit.t = "str"
                 /\ ~SizeRejected(raw.body_size_limit))
                 => result.body_size_limit = parse_size(raw.body_size_limit.v)
           /\ SizeRejected(raw.body_size_limit)
                 => (pc = "raised" /\ raised = OptionsError(BodySizeMsg))
           /\ pc = "done"
                 => \/ result.body_size_limit = None
                    \/ (result.body_size_limit.t = "int" /\ result.body_size_limit.v >= 0)

\* C7: a successful resolution has verbosity 0 when quiet is requested,
\* whatever verbose value was supplied, and the supplied verbose value
\* otherwise.
C7_QuietOverride ==
    pc = "done" => result.verbosity = (IF raw.quiet THEN 0 ELSE raw.verbose)

C7_Witness ==
    /\ pc = "done"
    /\ raw.quiet
    /\ raw.verbose = VerboseConst
    /\ result.verbosity = 0

\* e is the [domain, path] entry the claim gives for the raw cert spec s: s cut
\* at an "=" with no "=" left of the cut, or ["*", s] when s has no "=".
IsCertEntry(s, e) ==
    IF \E k \in 1..Len(s) : s[k] = "="
    THEN /\ Len(e) = 2
         /\ e[1] \o <<"=">> \o e[2] = s
         /\ \A j \in 1..Len(e[1]) : e[1][j] # "="
    ELSE e = <<<<"*">>, s>>

\* C8: a successful resolution's certs list has the length and order of the
\* raw list, duplicates kept; entry i is input i split on its first "=" only,
\* or ("*", input i) when it has no "="; an absent list resolves to [].
C8_CertsNormalised ==
    pc = "done"
        => IF raw.certs = None THEN result.certs = <<>>
           ELSE /\ Len(result.certs) = Len(raw.certs.v)
                /\ \A i \in 1..Len(raw.certs.v) : IsCertEntry(raw.certs.v[i], result.certs[i])

C8_Witness ==
    /\ pc = "done"
    /\ raw.certs = List(<<<<"d", "=", "a", "=", "b">>, <<"d", "=", "a", "=", "b">>>>)
    /\ result.certs = <<<<<<"d">>, <<"a", "=", "b">>>>, <<<<"d">>, <<"a", "=", "b">>>>>>

\* The rules in the order the claim fixes, and the errors each one raises.
RuleViolated(r, a, cap) ==
    CASE r = 1 -> SizeRejected(a.stream_large_bodies)
      [] r = 2 -> SamePath(a)
      [] r = 3 -> SizeRejected(a.body_size_limit)
      [] r = 4 -> Cardinality(Requested(a)) >= 2 \/ (a.transparent_proxy /\ ~cap)
      [] r = 5 -> a.add_upstream_certs_to_client_chain /\ ~a.upstream_cert

RuleErrors(r) ==
    CASE r = 1 -> {SizeParseError}
      [] r = 2 -> {OptionsError(SameFileMsg), OptionsError(InfiniteLoopMsg)}
      [] r = 3 -> {OptionsError(BodySizeMsg)}
      [] r = 4 -> {OptionsError(PlatformMsg), OptionsError(ExclusiveMsg)}
      [] r = 5 -> {OptionsError(ChainMsg)}

\* C9 (as stated): whenever some rule is violated no configuration is
\* returned and the one error raised is that of the earliest violated rule in
\* the order stream-large-bodies parsing, stream-file conflict,
\* body-size-limit parsing, proxy-mode selection, certificate-chain
\* precondition.
C9_FailFastInRuleOrder ==
    Finished
        => \A r \in 1..5 :
              (/\ RuleViolated(r, raw, original_addr)
               /\ \A q \in 1..(r - 1) : ~RuleViolated(q, raw, original_addr))
                  => (pc = "raised" /\ result = None /\ raised \in RuleErrors(r))

\* What get_common_options makes of a namespace that does not request
\* transparent mode, as a function of the namespace alone.
ModeOf(a) == IF Requested(a) = {} THEN "regular" ELSE CHOOSE m \in Requested(a) : TRUE

ResolvedWithoutTransparent(a) ==
    IF SizeRaises(a.stream_large_bodies)
    THEN [raised |-> SizeParseError, result |-> None]
    ELSE IF SamePath(a)
    THEN [raised |-> OptionsError(InfiniteLoopMsg), result |-> None]
    ELSE IF SizeRaises(a.body_size_limit)
    THEN [raised |-> OptionsError(BodySizeMsg), result |-> None]
    ELSE IF Cardinality(Requested(a)) >= 2
    THEN [raised |-> OptionsError(ExclusiveMsg), result |-> None]
    ELSE IF a.add_upstream_certs_to_client_chain /\ ~a.upstream_cert
    THEN [raised |-> OptionsError(ChainMsg), result |-> None]
    ELSE [raised |-> None,
          result |->
            [rfile |-> a.rfile,
             stickycookie |-> (IF NonEmpty(a.stickycookie_filt) THEN a.stickycookie_filt
                               ELSE None),
             stickyauth |-> (IF NonEmpty(a.stickyauth_filt) THEN a.stickyauth_filt ELSE None),
             stream_large_bodies |-> (IF NonEmpty(a.stream_large_bodies)
                                      THEN parse_size(a.stream_large_bodies.v)
                                      ELSE a.stream_large_bodies),
             streamfile |-> (IF a.streamfile.t = "tuple" THEN a.streamfile.f ELSE None),
             streamfile_append |-> (a.streamfile.t = "tuple" /\ a.streamfile.m = "a"),
             verbosity |-> (IF a.quiet THEN 0 ELSE a.verbose),
             add_upstream_certs_to_client_chain |-> a.add_upstream_certs_to_client_chain,
             body_size_limit |-> (IF NonEmpty(a.body_size_limit)
                                  THEN parse_size(a.body_size_limit.v)
                                  ELSE a.body_size_limit),
             certs |-> (IF a.certs.t = "list"
                        THEN [i \in 1..Len(a.certs.v) |-> CertParts(a.certs.v[i])]
                        ELSE <<>>),
             mode |-> ModeOf(a),
             upstream_cert |-> a.upstream_cert,
             upstream_server |-> (CASE ModeOf(a) = "reverse" -> a.reverse_proxy
                                    [] ModeOf(a) = "upstream" -> a.upstream_proxy
                                    [] OTHER -> None)]]

\* C10 (as stated): with transparent requested and original_addr absent,
\* get_common_options fails with the "not supported on this platform"
\* OptionsError; with transparent not requested the outcome is the same
\* whether original_addr is present or absent.  Stated here for the arguments
\* whose stream-large-bodies and stream-file options pass their own checks.
C10_AlwaysPlatformError ==
    (Finished /\ ~SizeRejected(raw.stream_large_bodies) /\ ~SamePath(raw))
        => /\ (raw.transparent_proxy /\ ~original_addr)
                 => (pc = "raised" /\ raised = OptionsError(PlatformMsg))
           /\ ~raw.transparent_proxy
                 => [raised |-> raised, result |-> result] = ResolvedWithoutTransparent(raw)

\* C10 (amended): with transparent requested and original_addr absent, no
\* configuration is returned, and the error is the "not supported on this
\* platform" OptionsError unless an earlier check fails first (a non-empty
\* size string the parser rejects, or the stream file equal to the read
\* file); that error is raised in no other case; with transparent not
\* requested the outcome is a function of the arguments alone, the same
\* whether original_addr is present or absent.
C10_PlatformOnlyWhenTransparent ==
    Finished
        => /\ (raw.transparent_proxy /\ ~original_addr)
                 => /\ pc = "raised"
                    /\ result = None
                    /\ ~FailsBeforeModes(raw) => raised = OptionsError(PlatformMsg)
           /\ raised = OptionsError(PlatformMsg)
                 => (raw.transparent_proxy /\ ~original_addr)
           /\ ~raw.transparent_proxy
                 => [raised |-> raised, result |-> result] = ResolvedWithoutTransparent(raw)

C10_Witness ==
    /\ pc = "raised"
    /\ raised = OptionsError(PlatformMsg)
    /\ ~original_addr
    /\ Requested(raw) = {"transparent", "socks5"}

\* C11: a second call of get_common_options on the same namespace object,
\* with the same platform capability, ends as the first did: the same error
\* after a failure, an equal configuration after a success.  A call that
\* fails leaves the namespace as supplied, and the only write a call makes is
\* verbose := 0 under quiet.
C11_Repeatable ==
    /\ (calls >= 2 /\ pc \in {"done", "raised"})
          => [raised |-> raised, result |-> result] = first
    /\ pc = "raised" => args = raw
    /\ args = raw \/ (raw.quiet /\ args = [raw EXCEPT !.verbose = 0])

C11_Witness ==
    /\ calls = 2
    /\ pc = "done"
    /\ raw.quiet
    /\ raw.verbose = VerboseConst
    /\ args.verbose = 0
    /\ first.result = result
    /\ result.verbosity = 0

\* The fixed order of the shared groups, named by the functions that add them:
\* Basic, Proxy Modes, Proxy Options, SSL, Onboarding, Client Replay, Server
\* Replay, Replacements, Set Headers, Proxy Authentication.
SharedOrder ==
    <<"basic_options", "proxy_modes", "proxy_options", "proxy_ssl_options", "onboarding_app",
      "client_replay", "server_replay", "replacements", "set_headers",
      "proxy_authentication">>

SharedFns == {SharedOrder[k] : k \in DOMAIN SharedOrder}

IsShared(it) == it.by \in SharedFns

IsVariantSpecific(it) == it.by \in Variants

\* The functions that made the additions of s, a run of additions by one
\* function counted once.
Runs(s) ==
    LET starts == {i \in DOMAIN s : i = 1 \/ s[i].by # s[i - 1].by}
        Nth(k) == CHOOSE i \in starts : Cardinality({j \in starts : j < i}) = k - 1
    IN [k \in 1..Cardinality(starts) |-> s[Nth(k)].by]

IsPrefix(a, b) == Len(a) <= Len(b) /\ SubSeq(b, 1, Len(a)) = a

\* The shared groups added by the first n additions, in the order of adding.
SharedGroupsIn(n) == Runs(SelectSeq(SubSeq(parser, 1, n), IsShared))

BuilderReturned == bpc = "return"

\* The shared groups go in in the fixed order, each in one piece, and all of
\* them are in when the builder returns.
SharedGroupsInOrder ==
    /\ IsPrefix(SharedGroupsIn(Len(parser)), SharedOrder)
    /\ BuilderReturned => SharedGroupsIn(Len(parser)) = SharedOrder

\* Addition number i is made when all the shared groups are in.
AfterAllShared(i) == SharedGroupsIn(i - 1) = SharedOrder

\* Addition number i is made when no shared group has been begun.
BeforeAllShared(i) == SharedGroupsIn(i - 1) = <<>> /\ SharedGroupsIn(Len(parser)) # <<>>

\* C12 as stated: for each of the three variants the shared groups are added
\* in the fixed order, and every variant-specific group or flag is added only
\* after all of the shared groups.
C12_VariantSpecificLast ==
    /\ SharedGroupsInOrder
    /\ \A i \in DOMAIN parser : IsVariantSpecific(parser[i]) => AfterAllShared(i)

\* C12: for each of the three variants the shared groups are added in the same
\* fixed order; mitmproxy and mitmdump add every variant-specific group or flag
\* only after all of the shared groups; mitmweb adds its Mitmweb group and the
\* flags of that group ahead of the shared groups, and its Filters group after
\* all of them.
C12_SharedOrderFixed ==
    /\ SharedGroupsInOrder
    /\ \A i \in DOMAIN parser :
          IsVariantSpecific(parser[i]) =>
              IF variant = "mitmweb" /\ parser[i].group = "Mitmweb"
              THEN SharedGroupsIn(i - 1) = <<>>
              ELSE AfterAllShared(i)
    /\ (variant = "mitmweb" /\ BuilderReturned) =>
          /\ \E i \in DOMAIN parser : parser[i].group = "Mitmweb" /\ BeforeAllShared(i)
          /\ \E i \in DOMAIN parser : parser[i].group = "Filters" /\ AfterAllShared(i)

C12_Witness ==
    /\ BuilderReturned
    /\ variant = "mitmweb"
    /\ parser[1] = Group("mitmweb", "Mitmweb")
    /\ parser[Len(parser)] = Flag("mitmweb", "Filters", "intercept")
    /\ SharedGroupsIn(Len(parser)) = SharedOrder

TypeOKBuild ==
    /\ variant \in Variants
    /\ bpc \in Variants \cup SharedFns \cup
               {"common_options", "mitmproxy_rest", "mitmdump_rest", "mitmweb_rest", "return"}
    /\ bidx \in 0..Len(parser)
    /\ \A i \in DOMAIN parser :
          /\ parser[i].op \in {"add_argument_group", "add_argument"}
          /\ parser[i].by \in Variants \cup SharedFns \cup {"common_options"}

====
